---------------------------- MODULE Spec2Model ----------------------------
(***************************************************************************)
(* Model of the Pleo MCP server (server.py): the module-level API key, the *)
(* API client and the five tool handlers.  A tool invocation is a          *)
(* coroutine with a single suspend point (the HTTP round trip), so every   *)
(* handler is two steps: the code up to the await, and the code from the   *)
(* response to the return.                                                  *)
(*                                                                         *)
(* Python and JSON values are tagged records: None/null, str, int, list    *)
(* and dict.  A text (the str a handler returns, or str(e)) is the         *)
(* sequence of the pieces an f-string concatenates: string literals and    *)
(* the interpolated values.                                                 *)
(***************************************************************************)
EXTENDS Integers, Sequences, FiniteSets, TLC

VARIABLES PLEO_API_KEY, calls

vars == <<PLEO_API_KEY, calls>>

-----------------------------------------------------------------------------
(* Bounds of the model *)

\* number of tool invocations in flight in the interleaved specification
MaxCalls == 2
\* how far around 0 and around the cap the limit argument is drawn
LimitSpread == 2
\* longest list in an upstream payload
MaxItems == 2

-----------------------------------------------------------------------------
(* Python / JSON values *)

PyNone == [t |-> "null"]
JStr(s) == [t |-> "str", v |-> s]
JNum(n) == [t |-> "num", v |-> n]
JList(q) == [t |-> "list", v |-> q]
JObj(f) == [t |-> "obj", v |-> f]
\* a response body that is not JSON (an empty body included)
RawBody == [t |-> "raw"]

EmptyObj == JObj(<<>>)
EmptyList == JList(<<>>)

\* x is None
IsNone(x) == x.t = "null"

\* bool(x)
Truthy(x) ==
  CASE x.t = "null" -> FALSE
    [] x.t = "str" -> x.v # ""
    [] x.t = "num" -> x.v # 0
    [] x.t = "list" -> Len(x.v) > 0
    [] x.t = "obj" -> DOMAIN x.v # {}

\* d.get(k, default) on a dict
Get(d, k, default) == IF k \in DOMAIN d.v THEN d.v[k] ELSE default

\* outcome of a piece of code: a value returned or an exception raised
Return(x) == [ok |-> TRUE, val |-> x]
Raise(e) == [ok |-> FALSE, exc |-> e]

-----------------------------------------------------------------------------
(* Exceptions *)

\* the direct base class of each exception class the program can meet
BaseOf(cls) ==
  CASE cls = "JSONDecodeError" -> "ValueError"
    [] cls = "HTTPStatusError" -> "HTTPError"
    [] cls = "RequestError" -> "HTTPError"
    [] cls = "HTTPError" -> "Exception"
    [] cls = "ValueError" -> "Exception"
    [] cls = "AttributeError" -> "Exception"
    [] cls = "TypeError" -> "Exception"
    [] cls = "Exception" -> "BaseException"
    [] OTHER -> "object"

RECURSIVE IsSubclass(_, _)
IsSubclass(cls, base) ==
  IF cls = base THEN TRUE
  ELSE IF cls = "object" THEN FALSE
  ELSE IsSubclass(BaseOf(cls), base)

\* isinstance(e, base), the test of an except clause
IsInstance(e, base) == IsSubclass(e.cls, base)

Exc(cls, status, msg) == [cls |-> cls, status |-> status, msg |-> msg]

AttributeError == Exc("AttributeError", 0, <<JStr("object has no attribute 'get'")>>)
TypeError == Exc("TypeError", 0, <<JStr("object is not iterable")>>)
JSONDecodeError == Exc("JSONDecodeError", 0, <<JStr("Expecting value")>>)
RequestError == Exc("RequestError", 0, <<JStr("All connection attempts failed")>>)
HTTPStatusError(status, url) ==
  Exc("HTTPStatusError", status,
      <<JStr("HTTP error '"), JNum(status), JStr("' for url '")>> \o url \o <<JStr("'")>>)

-----------------------------------------------------------------------------
(* Text helpers *)

\* iteration order of a dict's keys
RECURSIVE KeySeq(_)
KeySeq(K) ==
  IF K = {} THEN <<>>
  ELSE LET k == CHOOSE x \in K : TRUE IN <<JStr(k)>> \o KeySeq(K \ {k})

\* can a for loop / join / len take x
Iterable(x) == x.t \in {"str", "list", "obj"}

\* the items a for loop sees (payload strings in the model are one
\* character long, so a non-empty str iterates to itself)
Iterate(x) ==
  CASE x.t = "list" -> x.v
    [] x.t = "str" -> IF x.v = "" THEN <<>> ELSE <<x>>
    [] x.t = "obj" -> KeySeq(DOMAIN x.v)

\* sep.join(items), the items already known to be str
RECURSIVE JoinStr(_, _)
JoinStr(sep, items) ==
  IF Len(items) = 0 THEN <<>>
  ELSE IF Len(items) = 1 THEN <<items[1]>>
  ELSE <<items[1], JStr(sep)>> \o JoinStr(sep, Tail(items))

\* ', '.join(x): TypeError unless x is an iterable of str
Join(sep, x) ==
  IF ~Iterable(x) THEN Raise(TypeError)
  ELSE LET items == Iterate(x) IN
       IF \E k \in 1..Len(items) : items[k].t # "str" THEN Raise(TypeError)
       ELSE Return(JoinStr(sep, items))

\* text t occurs in text s as a contiguous run of pieces
Contains(s, t) ==
  \E k \in 0..(Len(s) - Len(t)) : \A j \in 1..Len(t) : s[k + j] = t[j]

\* d with key k set to v
Put(d, k, v) == [x \in (DOMAIN d) \cup {k} |-> IF x = k THEN v ELSE d[x]]

Min(a, b) == IF a < b THEN a ELSE b

-----------------------------------------------------------------------------
(* Configuration and API client *)

PLEO_API_BASE_URL == "https://openapi.pleo.io/v1"

\* the cap of list_expenses' limit
MaxLimit == 100

ConfigError ==
  Exc("ValueError", 0, <<JStr("PLEO_API_KEY environment variable is not set")>>)

\* variant of get_client that builds the client without looking at the key
get_client_unchecked(key) == Return(key)

\* get_client(): the client (its api key), or ValueError
get_client(key) == IF ~Truthy(key) THEN Raise(ConfigError) ELSE Return(key)

\* the request PleoAPIClient.get hands to httpx
ClientGet(client, endpoint, params) ==
  [method |-> "GET", url |-> <<JStr(PLEO_API_BASE_URL)>> \o endpoint,
   auth |-> <<JStr("Bearer "), client>>, params |-> params, json |-> PyNone]

\* the request PleoAPIClient.put hands to httpx
ClientPut(client, endpoint, data) ==
  [method |-> "PUT", url |-> <<JStr(PLEO_API_BASE_URL)>> \o endpoint,
   auth |-> <<JStr("Bearer "), client>>, params |-> PyNone, json |-> JObj(data)]

NetworkFailure == [kind |-> "error", status |-> 0, body |-> RawBody]
HttpResponse(status, body) == [kind |-> "http", status |-> status, body |-> body]

\* response.raise_for_status(): an error for every status outside 2xx
IsSuccess(status) == 200 <= status /\ status <= 299

\* the rest of get / put once httpx answers: raise_for_status and json()
ClientReceive(req, resp) ==
  IF resp.kind = "error" THEN Raise(RequestError)
  ELSE IF ~IsSuccess(resp.status) THEN Raise(HTTPStatusError(resp.status, req.url))
  ELSE IF resp.body.t = "raw" THEN Raise(JSONDecodeError)
  ELSE Return(resp.body)

-----------------------------------------------------------------------------
(* list_expenses *)

\* variant of list_expenses_params that passes limit through uncapped
list_expenses_params_uncapped(status, expense_type, from_date, to_date, limit) ==
  LET p0 == Put(<<>>, "limit", limit)
      p1 == IF Truthy(status) THEN Put(p0, "status", status) ELSE p0
      p2 == IF Truthy(expense_type) THEN Put(p1, "type", expense_type) ELSE p1
      p3 == IF Truthy(from_date) THEN Put(p2, "performedAtFrom", from_date) ELSE p2
      p4 == IF Truthy(to_date) THEN Put(p3, "performedAtTo", to_date) ELSE p3
  IN JObj(p4)

\* variant of list_expenses_params that tests "is not None" instead of truth
list_expenses_params_not_none(status, expense_type, from_date, to_date, limit) ==
  LET p0 == Put(<<>>, "limit", JNum(Min(limit.v, MaxLimit)))
      p1 == IF ~IsNone(status) THEN Put(p0, "status", status) ELSE p0
      p2 == IF ~IsNone(expense_type) THEN Put(p1, "type", expense_type) ELSE p1
      p3 == IF ~IsNone(from_date) THEN Put(p2, "performedAtFrom", from_date) ELSE p2
      p4 == IF ~IsNone(to_date) THEN Put(p3, "performedAtTo", to_date) ELSE p3
  IN JObj(p4)

\* the query parameters list_expenses builds
list_expenses_params(status, expense_type, from_date, to_date, limit) ==
  LET p0 == Put(<<>>, "limit", JNum(Min(limit.v, MaxLimit)))
      p1 == IF Truthy(status) THEN Put(p0, "status", status) ELSE p0
      p2 == IF Truthy(expense_type) THEN Put(p1, "type", expense_type) ELSE p1
      p3 == IF Truthy(from_date) THEN Put(p2, "performedAtFrom", from_date) ELSE p2
      p4 == IF Truthy(to_date) THEN Put(p3, "performedAtTo", to_date) ELSE p3
  IN JObj(p4)

\* the block of one expense in the summary
list_expenses_item(expense) ==
  IF expense.t # "obj" THEN Raise(AttributeError)
  ELSE LET amount == Get(expense, "amountOriginal", EmptyObj) IN
       IF amount.t # "obj" THEN Raise(AttributeError)
       ELSE Return(<<JStr("- ID: "), Get(expense, "id", JStr("N/A")), JStr("\n"),
                     JStr("  Date: "), Get(expense, "performedAt", JStr("N/A")), JStr("\n"),
                     JStr("  Amount: "), Get(amount, "value", JNum(0)), JStr(" "),
                         Get(amount, "currency", JStr("N/A")), JStr("\n"),
                     JStr("  Type: "), Get(expense, "type", JStr("N/A")), JStr("\n"),
                     JStr("  Status: "), Get(expense, "status", JStr("N/A")), JStr("\n"),
                     JStr("  Note: "), Get(expense, "note", JStr("No note")), JStr("\n\n")>>)

RECURSIVE list_expenses_loop(_, _)
list_expenses_loop(summary, items) ==
  IF Len(items) = 0 THEN Return(summary)
  ELSE LET b == list_expenses_item(Head(items)) IN
       IF ~b.ok THEN b ELSE list_expenses_loop(summary \o b.val, Tail(items))

\* the body of the try block after the await
list_expenses_render(result) ==
  IF result.t # "obj" THEN Raise(AttributeError)
  ELSE LET expenses == Get(result, "data", EmptyList) IN
       IF ~Truthy(expenses) THEN Return(<<JStr("No expenses found matching the criteria.")>>)
       ELSE IF ~Iterable(expenses) THEN Raise(TypeError)
       ELSE LET items == Iterate(expenses) IN
            list_expenses_loop(<<JStr("Found "), JNum(Len(items)), JStr(" expense(s):\n\n")>>, items)

\* the except clause of list_expenses
list_expenses_except(e) ==
  IF IsInstance(e, "Exception") THEN Return(<<JStr("Error: ")>> \o e.msg)
  ELSE Raise(e)

-----------------------------------------------------------------------------
(* get_expense *)

\* the "Card Transaction" block
get_expense_card(card_transaction) ==
  IF ~Truthy(card_transaction) THEN Return(<<>>)
  ELSE IF card_transaction.t # "obj" THEN Raise(AttributeError)
  ELSE LET head == <<JStr("\nCard Transaction:\n"),
                     JStr("  State: "), Get(card_transaction, "state", JStr("N/A")), JStr("\n"),
                     JStr("  Authorized At: "), Get(card_transaction, "authorizedAt", JStr("N/A")), JStr("\n"),
                     JStr("  Settled At: "), Get(card_transaction, "settledAt", JStr("N/A")), JStr("\n")>>
           merchant == Get(card_transaction, "merchant", EmptyObj)
       IN IF ~Truthy(merchant) THEN Return(head)
          ELSE IF merchant.t # "obj" THEN Raise(AttributeError)
          ELSE Return(head \o <<JStr("  Merchant: "), Get(merchant, "name", JStr("N/A")),
                                JStr(" (ID: "), Get(merchant, "id", JStr("N/A")), JStr(")\n")>>)

\* the body of the try block after the await
get_expense_render(expense) ==
  IF expense.t # "obj" THEN Raise(AttributeError)
  ELSE
  LET ids == <<JStr("Expense Details:\n\n"),
               JStr("ID: "), Get(expense, "id", JStr("N/A")), JStr("\n"),
               JStr("Employee ID: "), Get(expense, "employeeId", JStr("N/A")), JStr("\n"),
               JStr("Employee Code: "), Get(expense, "employeeCode", JStr("N/A")), JStr("\n"),
               JStr("Department ID: "), Get(expense, "departmentId", JStr("N/A")), JStr("\n"),
               JStr("Performed At: "), Get(expense, "performedAt", JStr("N/A")), JStr("\n")>>
      amount_original == Get(expense, "amountOriginal", EmptyObj)
      amount_settled == Get(expense, "amountSettled", EmptyObj)
      receipt_ids == Get(expense, "receiptIds", EmptyList)
      joined == IF Truthy(receipt_ids) THEN Join(", ", receipt_ids) ELSE Return(<<JStr("None")>>)
      card == get_expense_card(Get(expense, "cardTransaction", EmptyObj))
  IN
  IF amount_original.t # "obj" THEN Raise(AttributeError)
  ELSE IF Truthy(amount_settled) /\ amount_settled.t # "obj" THEN Raise(AttributeError)
  ELSE IF ~joined.ok THEN joined
  ELSE IF ~card.ok THEN card
  ELSE Return(
    ids
    \o <<JStr("Original Amount: "), Get(amount_original, "value", JNum(0)), JStr(" "),
         Get(amount_original, "currency", JStr("N/A")), JStr("\n")>>
    \o (IF Truthy(amount_settled)
        THEN <<JStr("Settled Amount: "), Get(amount_settled, "value", JNum(0)), JStr(" "),
               Get(amount_settled, "currency", JStr("N/A")), JStr("\n")>>
        ELSE <<>>)
    \o <<JStr("Note: "), Get(expense, "note", JStr("No note")), JStr("\n"),
         JStr("Type: "), Get(expense, "type", JStr("N/A")), JStr("\n"),
         JStr("Status: "), Get(expense, "status", JStr("N/A")), JStr("\n"),
         JStr("Account ID: "), Get(expense, "accountId", JStr("N/A")), JStr("\n"),
         JStr("Tax Code ID: "), Get(expense, "taxCodeId", JStr("N/A")), JStr("\n"),
         JStr("Receipt IDs: ")>> \o joined.val \o <<JStr("\n")>>
    \o card.val
    \o <<JStr("\nCreated At: "), Get(expense, "createdAt", JStr("N/A")), JStr("\n"),
         JStr("Updated At: "), Get(expense, "updatedAt", JStr("N/A")), JStr("\n")>>)

\* "Error: Expense with ID {expense_id} not found"
ExpenseNotFound(expense_id) ==
  <<JStr("Error: Expense with ID "), expense_id, JStr(" not found")>>

\* variant of get_expense_except that reports every HTTP status as not found
get_expense_except_any_status(e, expense_id) ==
  IF IsInstance(e, "HTTPStatusError") THEN Return(ExpenseNotFound(expense_id))
  ELSE IF IsInstance(e, "Exception") THEN Return(<<JStr("Error: ")>> \o e.msg)
  ELSE Raise(e)

\* the except clauses of get_expense
get_expense_except(e, expense_id) ==
  IF IsInstance(e, "HTTPStatusError")
  THEN IF e.status = 404 THEN Return(ExpenseNotFound(expense_id))
       ELSE Return(<<JStr("Error: ")>> \o e.msg)
  ELSE IF IsInstance(e, "Exception") THEN Return(<<JStr("Error: ")>> \o e.msg)
  ELSE Raise(e)

-----------------------------------------------------------------------------
(* update_expense *)

\* variant of update_expense_data that always sends the note
update_expense_data_note_always(note, account_id, tax_code_id) ==
  LET d1 == Put(<<>>, "note", note)
      d2 == IF ~IsNone(account_id) THEN Put(d1, "accountId", account_id) ELSE d1
      d3 == IF ~IsNone(tax_code_id) THEN Put(d2, "taxCodeId", tax_code_id) ELSE d2
  IN d3

\* variant of update_expense_data that tests truth instead of "is not None"
update_expense_data_truthy(note, account_id, tax_code_id) ==
  LET d0 == <<>>
      d1 == IF Truthy(note) THEN Put(d0, "note", note) ELSE d0
      d2 == IF Truthy(account_id) THEN Put(d1, "accountId", account_id) ELSE d1
      d3 == IF Truthy(tax_code_id) THEN Put(d2, "taxCodeId", tax_code_id) ELSE d2
  IN d3

\* the update payload update_expense builds
update_expense_data(note, account_id, tax_code_id) ==
  LET d0 == <<>>
      d1 == IF ~IsNone(note) THEN Put(d0, "note", note) ELSE d0
      d2 == IF ~IsNone(account_id) THEN Put(d1, "accountId", account_id) ELSE d1
      d3 == IF ~IsNone(tax_code_id) THEN Put(d2, "taxCodeId", tax_code_id) ELSE d2
  IN d3

NoUpdateFields ==
  <<JStr("Error: No update fields provided. Please specify at least one field to update.")>>

\* the body of the try block after the await: result is not used
update_expense_render(result, expense_id) ==
  Return(<<JStr("Successfully updated expense "), expense_id>>)

\* the except clauses of update_expense
update_expense_except(e, expense_id) ==
  IF IsInstance(e, "HTTPStatusError")
  THEN IF e.status = 404 THEN Return(ExpenseNotFound(expense_id))
       ELSE Return(<<JStr("Error: ")>> \o e.msg)
  ELSE IF IsInstance(e, "Exception") THEN Return(<<JStr("Error: ")>> \o e.msg)
  ELSE Raise(e)

-----------------------------------------------------------------------------
(* get_expense_receipts *)

\* the block of one receipt
get_expense_receipts_item(receipt) ==
  IF receipt.t # "obj" THEN Raise(AttributeError)
  ELSE Return(<<JStr("- Receipt ID: "), Get(receipt, "id", JStr("N/A")), JStr("\n"),
                JStr("  Name: "), Get(receipt, "name", JStr("N/A")), JStr("\n"),
                JStr("  Type: "), Get(receipt, "mimeType", JStr("N/A")), JStr("\n"),
                JStr("  Size: "), Get(receipt, "size", JNum(0)), JStr(" KB\n"),
                JStr("  Download URL: "), Get(receipt, "url", JStr("N/A")), JStr("\n"),
                JStr("  (URL valid for 15 hours)\n\n")>>)

RECURSIVE get_expense_receipts_loop(_, _)
get_expense_receipts_loop(result, items) ==
  IF Len(items) = 0 THEN Return(result)
  ELSE LET b == get_expense_receipts_item(Head(items)) IN
       IF ~b.ok THEN b ELSE get_expense_receipts_loop(result \o b.val, Tail(items))

\* the body of the try block after the await
get_expense_receipts_render(receipts, expense_id) ==
  IF ~Truthy(receipts) THEN Return(<<JStr("No receipts found for expense "), expense_id>>)
  ELSE IF ~Iterable(receipts) THEN Raise(TypeError)
  ELSE get_expense_receipts_loop(
         <<JStr("Receipts for expense "), expense_id, JStr(":\n\n")>>, Iterate(receipts))

\* variant of get_expense_receipts_except without the 404 case
get_expense_receipts_except_no_404(e, expense_id) ==
  IF IsInstance(e, "Exception") THEN Return(<<JStr("Error: ")>> \o e.msg)
  ELSE Raise(e)

\* the except clauses of get_expense_receipts
get_expense_receipts_except(e, expense_id) ==
  IF IsInstance(e, "HTTPStatusError")
  THEN IF e.status = 404 THEN Return(ExpenseNotFound(expense_id))
       ELSE Return(<<JStr("Error: ")>> \o e.msg)
  ELSE IF IsInstance(e, "Exception") THEN Return(<<JStr("Error: ")>> \o e.msg)
  ELSE Raise(e)

-----------------------------------------------------------------------------
(* get_expense_receipt *)

\* the body of the try block after the await
get_expense_receipt_render(receipt) ==
  IF receipt.t # "obj" THEN Raise(AttributeError)
  ELSE Return(<<JStr("Receipt Details:\n\n"),
                JStr("ID: "), Get(receipt, "id", JStr("N/A")), JStr("\n"),
                JStr("Name: "), Get(receipt, "name", JStr("N/A")), JStr("\n"),
                JStr("MIME Type: "), Get(receipt, "mimeType", JStr("N/A")), JStr("\n"),
                JStr("Size: "), Get(receipt, "size", JNum(0)), JStr(" KB\n"),
                JStr("Download URL: "), Get(receipt, "url", JStr("N/A")), JStr("\n"),
                JStr("(URL valid for 15 hours)\n")>>)

\* "Error: Receipt with ID {receipt_id} not found for expense {expense_id}"
ReceiptNotFound(expense_id, receipt_id) ==
  <<JStr("Error: Receipt with ID "), receipt_id, JStr(" not found for expense "), expense_id>>

\* variant of get_expense_receipt_except without the catch-all clause
get_expense_receipt_except_http_only(e, expense_id, receipt_id) ==
  IF IsInstance(e, "HTTPStatusError")
  THEN IF e.status = 404 THEN Return(ReceiptNotFound(expense_id, receipt_id))
       ELSE Return(<<JStr("Error: ")>> \o e.msg)
  ELSE Raise(e)

\* the except clauses of get_expense_receipt
get_expense_receipt_except(e, expense_id, receipt_id) ==
  IF IsInstance(e, "HTTPStatusError")
  THEN IF e.status = 404 THEN Return(ReceiptNotFound(expense_id, receipt_id))
       ELSE Return(<<JStr("Error: ")>> \o e.msg)
  ELSE IF IsInstance(e, "Exception") THEN Return(<<JStr("Error: ")>> \o e.msg)
  ELSE Raise(e)

-----------------------------------------------------------------------------
(* Inputs: arguments of the tools and answers of the upstream API *)

Keys == {PyNone, JStr(""), JStr("secret")}

Limits ==
  {JNum(n) : n \in ((0 - LimitSpread)..LimitSpread)
                   \cup ((MaxLimit - LimitSpread)..(MaxLimit + LimitSpread)) \cup {50}}

ExpenseFull ==
  JObj([id |-> JStr("e1"), employeeId |-> JStr("u1"), performedAt |-> JStr("2024-01-02"),
        amountOriginal |-> JObj([value |-> JNum(12), currency |-> JStr("DKK")]),
        amountSettled |-> JObj([value |-> JNum(12), currency |-> JStr("DKK")]),
        note |-> JStr("lunch"), type |-> JStr("CARD"), status |-> JStr("QUEUED"),
        receiptIds |-> JList(<<JStr("r1"), JStr("r2")>>),
        cardTransaction |-> JObj([state |-> JStr("SETTLED"),
                                  merchant |-> JObj([name |-> JStr("Cafe"), id |-> JStr("m1")])])])

ReceiptFull ==
  JObj([id |-> JStr("r1"), name |-> JStr("r.pdf"), mimeType |-> JStr("application/pdf"),
        size |-> JNum(20), url |-> JStr("https://files/r1")])

\* the things a list in a payload may hold
ItemSamples == {ExpenseFull, ReceiptFull, JStr("x"), JObj([amountOriginal |-> PyNone])}

Lists == {JList(q) : q \in UNION {[1..n -> ItemSamples] : n \in 0..MaxItems}}

\* expense records of unexpected shape
ExpenseVariants ==
  {JObj([amountOriginal |-> JNum(3)]), JObj([amountSettled |-> JNum(3)]),
   JObj([receiptIds |-> JNum(4)]), JObj([receiptIds |-> JList(<<JNum(1)>>)]),
   JObj([receiptIds |-> JStr("x")]), JObj([receiptIds |-> JObj([a |-> JNum(1)])]),
   JObj([cardTransaction |-> JStr("x")]), JObj([cardTransaction |-> PyNone]),
   JObj([cardTransaction |-> JObj([merchant |-> JStr("x")])])}

Bodies ==
  {RawBody, PyNone, JNum(0), JNum(7), JStr(""), JStr("x"), EmptyObj, ExpenseFull, ReceiptFull}
  \cup Lists
  \cup {JObj([data |-> d]) : d \in Lists \cup {PyNone, JNum(7), JStr("x"), ReceiptFull}}
  \cup ExpenseVariants

Statuses == {200, 204, 302, 400, 404, 500}

Responses ==
  {NetworkFailure}
  \cup {HttpResponse(st, b) : st \in {x \in Statuses : IsSuccess(x)}, b \in Bodies}
  \cup {HttpResponse(st, b) : st \in {x \in Statuses : ~IsSuccess(x)},
                              b \in {RawBody, JObj([message |-> JStr("x")])}}

\* the inputs of one invocation at a time
Inputs ==
  [status |-> {PyNone, JStr(""), JStr("QUEUED")},
   expense_type |-> {PyNone, JStr(""), JStr("CARD")},
   from_date |-> {PyNone, JStr(""), JStr("2024-01-01")},
   to_date |-> {PyNone, JStr(""), JStr("2024-12-31")},
   limit |-> Limits,
   expense_id |-> {JStr("e1"), JStr("e2")},
   receipt_id |-> {JStr("r1"), JStr("r2")},
   note |-> {PyNone, JStr(""), JStr("lunch")},
   account_id |-> {PyNone, JStr(""), JStr("a1")},
   tax_code_id |-> {PyNone, JStr(""), JStr("t1")},
   resp |-> Responses]

\* the inputs of interleaved invocations
FewInputs ==
  [status |-> {PyNone},
   expense_type |-> {PyNone},
   from_date |-> {PyNone},
   to_date |-> {PyNone},
   limit |-> {JNum(50)},
   expense_id |-> {JStr("e1")},
   receipt_id |-> {JStr("r1")},
   note |-> {PyNone, JStr("lunch")},
   account_id |-> {PyNone},
   tax_code_id |-> {PyNone},
   resp |-> {NetworkFailure, HttpResponse(200, EmptyObj), HttpResponse(200, RawBody),
             HttpResponse(404, RawBody), HttpResponse(500, RawBody)}]

-----------------------------------------------------------------------------
(* Invocations *)

IdleCall ==
  [tool |-> "none", args |-> <<>>, pc |-> "idle", sent |-> <<>>, resp |-> <<>>,
   ret |-> <<>>, raised |-> <<>>]

\* the invocation suspends at its await with the request on the wire
Await(i, tool, args, req) ==
  calls' = [calls EXCEPT ![i] =
              [tool |-> tool, args |-> args, pc |-> "awaiting", sent |-> <<req>>,
               resp |-> <<>>, ret |-> <<>>, raised |-> <<>>]]

\* the invocation ends: it returns a str or lets an exception out
Done(i, tool, args, sent, resp, out) ==
  calls' = [calls EXCEPT ![i] =
              [tool |-> tool, args |-> args, pc |-> "done", sent |-> sent, resp |-> resp,
               ret |-> IF out.ok THEN <<out.val>> ELSE <<>>,
               raised |-> IF out.ok THEN <<>> ELSE <<out.exc>>]]

\* a try block's outcome after its except clauses
Caught(out, handled) == IF out.ok THEN out ELSE handled

list_expenses_call(i, In) ==
  /\ calls[i].pc = "idle"
  /\ \E status \in In.status, expense_type \in In.expense_type,
        from_date \in In.from_date, to_date \in In.to_date, limit \in In.limit :
       LET args == [status |-> status, expense_type |-> expense_type,
                    from_date |-> from_date, to_date |-> to_date, limit |-> limit]
           client == get_client(PLEO_API_KEY)
       IN IF ~client.ok
          THEN Done(i, "list_expenses", args, <<>>, <<>>, list_expenses_except(client.exc))
          ELSE Await(i, "list_expenses", args,
                     ClientGet(client.val, <<JStr("/expenses")>>,
                               list_expenses_params(status, expense_type, from_date, to_date,
                                                    limit)))
  /\ UNCHANGED PLEO_API_KEY

list_expenses_resume(i, In) ==
  /\ calls[i].pc = "awaiting"
  /\ calls[i].tool = "list_expenses"
  /\ \E resp \in In.resp :
       LET c == calls[i]
           r == ClientReceive(c.sent[1], resp)
           out == IF r.ok THEN list_expenses_render(r.val) ELSE r
       IN Done(i, c.tool, c.args, c.sent, <<resp>>,
               IF out.ok THEN out ELSE list_expenses_except(out.exc))
  /\ UNCHANGED PLEO_API_KEY

get_expense_call(i, In) ==
  /\ calls[i].pc = "idle"
  /\ \E expense_id \in In.expense_id :
       LET args == [expense_id |-> expense_id]
           client == get_client(PLEO_API_KEY)
       IN IF ~client.ok
          THEN Done(i, "get_expense", args, <<>>, <<>>,
                    get_expense_except(client.exc, expense_id))
          ELSE Await(i, "get_expense", args,
                     ClientGet(client.val, <<JStr("/expenses/"), expense_id>>, PyNone))
  /\ UNCHANGED PLEO_API_KEY

get_expense_resume(i, In) ==
  /\ calls[i].pc = "awaiting"
  /\ calls[i].tool = "get_expense"
  /\ \E resp \in In.resp :
       LET c == calls[i]
           r == ClientReceive(c.sent[1], resp)
           out == IF r.ok THEN get_expense_render(r.val) ELSE r
       IN Done(i, c.tool, c.args, c.sent, <<resp>>,
               IF out.ok THEN out ELSE get_expense_except(out.exc, c.args.expense_id))
  /\ UNCHANGED PLEO_API_KEY

update_expense_call(i, In) ==
  /\ calls[i].pc = "idle"
  /\ \E expense_id \in In.expense_id, note \in In.note, account_id \in In.account_id,
        tax_code_id \in In.tax_code_id :
       LET args == [expense_id |-> expense_id, note |-> note, account_id |-> account_id,
                    tax_code_id |-> tax_code_id]
           client == get_client(PLEO_API_KEY)
           update_data == update_expense_data(note, account_id, tax_code_id)
       IN IF ~client.ok
          THEN Done(i, "update_expense", args, <<>>, <<>>,
                    update_expense_except(client.exc, expense_id))
          ELSE IF DOMAIN update_data = {}
          THEN Done(i, "update_expense", args, <<>>, <<>>, Return(NoUpdateFields))
          ELSE Await(i, "update_expense", args,
                     ClientPut(client.val, <<JStr("/expenses/"), expense_id>>, update_data))
  /\ UNCHANGED PLEO_API_KEY

update_expense_resume(i, In) ==
  /\ calls[i].pc = "awaiting"
  /\ calls[i].tool = "update_expense"
  /\ \E resp \in In.resp :
       LET c == calls[i]
           r == ClientReceive(c.sent[1], resp)
           out == IF r.ok THEN update_expense_render(r.val, c.args.expense_id) ELSE r
       IN Done(i, c.tool, c.args, c.sent, <<resp>>,
               IF out.ok THEN out ELSE update_expense_except(out.exc, c.args.expense_id))
  /\ UNCHANGED PLEO_API_KEY

get_expense_receipts_call(i, In) ==
  /\ calls[i].pc = "idle"
  /\ \E expense_id \in In.expense_id :
       LET args == [expense_id |-> expense_id]
           client == get_client(PLEO_API_KEY)
       IN IF ~client.ok
          THEN Done(i, "get_expense_receipts", args, <<>>, <<>>,
                    get_expense_receipts_except(client.exc, expense_id))
          ELSE Await(i, "get_expense_receipts", args,
                     ClientGet(client.val,
                               <<JStr("/expenses/"), expense_id, JStr("/receipts")>>, PyNone))
  /\ UNCHANGED PLEO_API_KEY

\* variant of get_expense_receipts_resume that repeats the request on a failure
get_expense_receipts_resume_retry(i, In) ==
  /\ calls[i].pc = "awaiting"
  /\ calls[i].tool = "get_expense_receipts"
  /\ \E resp \in In.resp :
       LET c == calls[i]
           r == ClientReceive(c.sent[1], resp)
           out == IF r.ok THEN get_expense_receipts_render(r.val, c.args.expense_id) ELSE r
       IN Done(i, c.tool, c.args, IF r.ok THEN c.sent ELSE c.sent \o c.sent, <<resp>>,
               IF out.ok THEN out
               ELSE get_expense_receipts_except(out.exc, c.args.expense_id))
  /\ UNCHANGED PLEO_API_KEY

get_expense_receipts_resume(i, In) ==
  /\ calls[i].pc = "awaiting"
  /\ calls[i].tool = "get_expense_receipts"
  /\ \E resp \in In.resp :
       LET c == calls[i]
           r == ClientReceive(c.sent[1], resp)
           out == IF r.ok THEN get_expense_receipts_render(r.val, c.args.expense_id) ELSE r
       IN Done(i, c.tool, c.args, c.sent, <<resp>>,
               IF out.ok THEN out
               ELSE get_expense_receipts_except(out.exc, c.args.expense_id))
  /\ UNCHANGED PLEO_API_KEY

get_expense_receipt_call(i, In) ==
  /\ calls[i].pc = "idle"
  /\ \E expense_id \in In.expense_id, receipt_id \in In.receipt_id :
       LET args == [expense_id |-> expense_id, receipt_id |-> receipt_id]
           client == get_client(PLEO_API_KEY)
       IN IF ~client.ok
          THEN Done(i, "get_expense_receipt", args, <<>>, <<>>,
                    get_expense_receipt_except(client.exc, expense_id, receipt_id))
          ELSE Await(i, "get_expense_receipt", args,
                     ClientGet(client.val,
                               <<JStr("/expenses/"), expense_id, JStr("/receipts/"), receipt_id>>,
                               PyNone))
  /\ UNCHANGED PLEO_API_KEY

get_expense_receipt_resume(i, In) ==
  /\ calls[i].pc = "awaiting"
  /\ calls[i].tool = "get_expense_receipt"
  /\ \E resp \in In.resp :
       LET c == calls[i]
           r == ClientReceive(c.sent[1], resp)
           out == IF r.ok THEN get_expense_receipt_render(r.val) ELSE r
       IN Done(i, c.tool, c.args, c.sent, <<resp>>,
               IF out.ok THEN out
               ELSE get_expense_receipt_except(out.exc, c.args.expense_id, c.args.receipt_id))
  /\ UNCHANGED PLEO_API_KEY

-----------------------------------------------------------------------------
(* Specifications *)

\* the key is read once at import; one invocation
Init ==
  /\ PLEO_API_KEY \in Keys
  /\ calls = [i \in 1..1 |-> IdleCall]

\* a step of the invocation
Next ==
  \/ \E i \in 1..1 : list_expenses_call(i, Inputs)
  \/ \E i \in 1..1 : list_expenses_resume(i, Inputs)
  \/ \E i \in 1..1 : get_expense_call(i, Inputs)
  \/ \E i \in 1..1 : get_expense_resume(i, Inputs)
  \/ \E i \in 1..1 : update_expense_call(i, Inputs)
  \/ \E i \in 1..1 : update_expense_resume(i, Inputs)
  \/ \E i \in 1..1 : get_expense_receipts_call(i, Inputs)
  \/ \E i \in 1..1 : get_expense_receipts_resume(i, Inputs)
  \/ \E i \in 1..1 : get_expense_receipt_call(i, Inputs)
  \/ \E i \in 1..1 : get_expense_receipt_resume(i, Inputs)

Spec == Init /\ [][Next]_vars

\* MaxCalls invocations dispatched concurrently by the host
InitConc ==
  /\ PLEO_API_KEY \in Keys
  /\ calls = [i \in 1..MaxCalls |-> IdleCall]

\* a step of one of the invocations
NextConc ==
  \/ \E i \in 1..MaxCalls : list_expenses_call(i, FewInputs)
  \/ \E i \in 1..MaxCalls : list_expenses_resume(i, FewInputs)
  \/ \E i \in 1..MaxCalls : get_expense_call(i, FewInputs)
  \/ \E i \in 1..MaxCalls : get_expense_resume(i, FewInputs)
  \/ \E i \in 1..MaxCalls : update_expense_call(i, FewInputs)
  \/ \E i \in 1..MaxCalls : update_expense_resume(i, FewInputs)
  \/ \E i \in 1..MaxCalls : get_expense_receipts_call(i, FewInputs)
  \/ \E i \in 1..MaxCalls : get_expense_receipts_resume(i, FewInputs)
  \/ \E i \in 1..MaxCalls : get_expense_receipt_call(i, FewInputs)
  \/ \E i \in 1..MaxCalls : get_expense_receipt_resume(i, FewInputs)

SpecConc == InitConc /\ [][NextConc]_vars

-----------------------------------------------------------------------------
(* Properties *)

Tools == {"list_expenses", "get_expense", "update_expense", "get_expense_receipts",
          "get_expense_receipt"}

IsDone(i) == calls[i].pc = "done"
HasSent(i) == Len(calls[i].sent) > 0
\* the upstream answered invocation i with this HTTP status
Answered(i, st) ==
  /\ IsDone(i)
  /\ Len(calls[i].resp) = 1
  /\ calls[i].resp[1].kind = "http"
  /\ calls[i].resp[1].status = st
Returned(i, text) == Len(calls[i].ret) = 1 /\ calls[i].ret[1] = text
\* "Error: " followed by the text of the HTTP error of the request of i
RawHttpError(i, st) ==
  <<JStr("Error: "), JStr("HTTP error '"), JNum(st), JStr("' for url '")>>
  \o calls[i].sent[1].url \o <<JStr("'")>>
ConfigErrorText ==
  <<JStr("Error: "), JStr("PLEO_API_KEY environment variable is not set")>>
KeyConfigured == PLEO_API_KEY.t = "str" /\ PLEO_API_KEY.v # ""
NoFields(a) == a.note.t = "null" /\ a.account_id.t = "null" /\ a.tax_code_id.t = "null"

\* C1: every finished invocation of any of the five handlers, whatever the
\* client call did (no key, any HTTP status, network failure, malformed or
\* oddly shaped payload), has returned one text and raised nothing.
C1_AlwaysReturnsText ==
  \A i \in DOMAIN calls :
    IsDone(i) =>
      /\ calls[i].tool \in Tools
      /\ Len(calls[i].raised) = 0
      /\ Len(calls[i].ret) = 1
      /\ Len(calls[i].ret[1]) > 0
      /\ \A k \in 1..Len(calls[i].ret[1]) :
           calls[i].ret[1][k].t \in {"null", "str", "num", "list", "obj"}

\* a 200 answer whose payload is a string where a receipt record was
\* expected ended as a returned error text
C1_Witness ==
  \E i \in DOMAIN calls :
    /\ calls[i].tool = "get_expense_receipt"
    /\ Answered(i, 200)
    /\ calls[i].resp[1].body = JStr("x")
    /\ Len(calls[i].ret) = 1
    /\ calls[i].ret[1][1] = JStr("Error: ")

\* C2 as stated: update_expense with no field supplied returns the
\* validation error and sends nothing, in every configuration state.
C2_Original ==
  \A i \in DOMAIN calls :
    (calls[i].tool = "update_expense" /\ NoFields(calls[i].args)) =>
      /\ IsDone(i)
      /\ ~HasSent(i)
      /\ Returned(i, <<JStr("Error: No update fields provided. Please specify at least one field to update.")>>)

\* C2 amended: update_expense with no field supplied sends nothing in every
\* configuration state; it returns the validation error when the API key is
\* configured and the configuration error when it is not.
C2_NoFieldsNoRequest ==
  \A i \in DOMAIN calls :
    (calls[i].tool = "update_expense" /\ NoFields(calls[i].args)) =>
      /\ IsDone(i)
      /\ ~HasSent(i)
      /\ Len(calls[i].resp) = 0
      /\ IF KeyConfigured
         THEN Returned(i, <<JStr("Error: No update fields provided. Please specify at least one field to update.")>>)
         ELSE Returned(i, ConfigErrorText)

C2_Witness ==
  \E i \in DOMAIN calls :
    /\ KeyConfigured
    /\ calls[i].tool = "update_expense"
    /\ NoFields(calls[i].args)
    /\ IsDone(i)
    /\ calls[i].ret[1][1].v = "Error: No update fields provided. Please specify at least one field to update."

\* the argument that feeds key k of the update payload
UpdateArg(a, k) ==
  CASE k = "note" -> a.note
    [] k = "accountId" -> a.account_id
    [] k = "taxCodeId" -> a.tax_code_id

\* C3: with the key configured and at least one of note, account_id,
\* tax_code_id supplied, update_expense sends PUT /expenses/{id} with a body
\* that has exactly the keys whose inputs were supplied (the empty string
\* counts as supplied), each with the supplied value, and no other key.
C3_UpdatePayload ==
  \A i \in DOMAIN calls :
    (calls[i].tool = "update_expense" /\ KeyConfigured /\ ~NoFields(calls[i].args)) =>
      /\ Len(calls[i].sent) = 1
      /\ calls[i].sent[1].method = "PUT"
      /\ calls[i].sent[1].url =
           <<JStr("https://openapi.pleo.io/v1"), JStr("/expenses/"), calls[i].args.expense_id>>
      /\ LET body == calls[i].sent[1].json.v IN
         /\ DOMAIN body \subseteq {"note", "accountId", "taxCodeId"}
         /\ \A k \in {"note", "accountId", "taxCodeId"} :
              /\ k \in DOMAIN body <=> UpdateArg(calls[i].args, k).t # "null"
              /\ k \in DOMAIN body => body[k] = UpdateArg(calls[i].args, k)

\* an empty note and a tax code are sent, the account id left out is absent
C3_Witness ==
  \E i \in DOMAIN calls :
    /\ calls[i].tool = "update_expense"
    /\ HasSent(i)
    /\ calls[i].args.note = JStr("")
    /\ calls[i].args.account_id.t = "null"
    /\ calls[i].args.tax_code_id = JStr("t1")
    /\ DOMAIN calls[i].sent[1].json.v = {"note", "taxCodeId"}
    /\ calls[i].sent[1].json.v["note"] = JStr("")

\* C4: the limit list_expenses sends is 100 when limit > 100 and the input
\* unchanged when limit <= 100 (zero and negatives included); it is never
\* above 100.
C4_LimitCapped ==
  \A i \in DOMAIN calls :
    (calls[i].tool = "list_expenses" /\ HasSent(i)) =>
      LET sentLimit == calls[i].sent[1].params.v["limit"]
          limit == calls[i].args.limit.v
      IN /\ sentLimit.t = "num"
         /\ sentLimit.v = (IF limit > 100 THEN 100 ELSE limit)
         /\ sentLimit.v <= 100

C4_Witness ==
  \E i \in DOMAIN calls :
    /\ calls[i].tool = "list_expenses"
    /\ HasSent(i)
    /\ calls[i].args.limit.v > 100
    /\ calls[i].sent[1].params.v["limit"].v = 100

\* C5: with no API key configured, every invocation of each handler ends at
\* once with the configuration error text and never sends a request.
C5_NoKeyNoRequest ==
  PLEO_API_KEY.t = "null" =>
    \A i \in DOMAIN calls :
      /\ ~HasSent(i)
      /\ calls[i].pc # "awaiting"
      /\ IsDone(i) => Returned(i, ConfigErrorText)

C5_Witness ==
  /\ PLEO_API_KEY.t = "null"
  /\ \E i \in DOMAIN calls :
       /\ calls[i].tool = "update_expense"
       /\ calls[i].args.note = JStr("lunch")
       /\ IsDone(i)
       /\ calls[i].ret[1] = ConfigErrorText

\* C6 as stated: on a 404 answer every handler, list_expenses included,
\* returns something else than the raw error text.
C6_Original ==
  \A i \in DOMAIN calls :
    Answered(i, 404) => ~Returned(i, RawHttpError(i, 404))

\* C6 amended: on a 404 answer get_expense, update_expense and
\* get_expense_receipts return "Error: Expense with ID {id} not found",
\* get_expense_receipt returns "Error: Receipt with ID {rid} not found for
\* expense {id}", and list_expenses returns "Error: " and the raw error text.
C6_NotFoundMessages ==
  \A i \in DOMAIN calls :
    Answered(i, 404) =>
      LET a == calls[i].args IN
      CASE calls[i].tool = "list_expenses" -> Returned(i, RawHttpError(i, 404))
        [] calls[i].tool = "get_expense_receipt" ->
             Returned(i, <<JStr("Error: Receipt with ID "), a.receipt_id,
                           JStr(" not found for expense "), a.expense_id>>)
        [] OTHER ->
             Returned(i, <<JStr("Error: Expense with ID "), a.expense_id,
                           JStr(" not found")>>)

C6_Witness ==
  \E i \in DOMAIN calls :
    /\ calls[i].tool = "get_expense_receipts"
    /\ Answered(i, 404)
    /\ calls[i].args.expense_id = JStr("e2")
    /\ Contains(calls[i].ret[1], <<JStr("e2"), JStr(" not found")>>)

\* C7: when GET /expenses/{id} answers 404, get_expense returns "Error:
\* Expense with ID {id} not found" with the id it was given and raises
\* nothing; on any other status outside 2xx it returns the raw error text.
C7_GetExpenseNotFound ==
  \A i \in DOMAIN calls :
    (calls[i].tool = "get_expense" /\ IsDone(i) /\ Len(calls[i].resp) = 1
       /\ calls[i].resp[1].kind = "http") =>
      LET st == calls[i].resp[1].status
          notFound == <<JStr("Error: Expense with ID "), calls[i].args.expense_id,
                        JStr(" not found")>>
      IN /\ st = 404 => (Returned(i, notFound) /\ Len(calls[i].raised) = 0)
         /\ (st # 404 /\ ~(st >= 200 /\ st <= 299)) =>
              (Returned(i, RawHttpError(i, st)) /\ ~Contains(calls[i].ret[1], notFound))

C7_Witness ==
  \E i \in DOMAIN calls :
    /\ calls[i].tool = "get_expense"
    /\ Answered(i, 404)
    /\ calls[i].args.expense_id = JStr("e2")
    /\ calls[i].sent[1].url[3] = JStr("e2")
    /\ calls[i].ret[1][2] = JStr("e2")

\* the argument that feeds key k of the query
ListArg(a, k) ==
  CASE k = "status" -> a.status
    [] k = "type" -> a.expense_type
    [] k = "performedAtFrom" -> a.from_date
    [] k = "performedAtTo" -> a.to_date

FilterKeys == {"status", "type", "performedAtFrom", "performedAtTo"}

\* C8 as stated: the query has a filter key exactly when its parameter is
\* not null, the empty string included.
C8_Original ==
  \A i \in DOMAIN calls :
    (calls[i].tool = "list_expenses" /\ HasSent(i)) =>
      LET q == calls[i].sent[1].params.v IN
      \A k \in FilterKeys :
        k \in DOMAIN q <=> ListArg(calls[i].args, k).t # "null"

\* C8 amended: the query of GET /expenses has the key status, type,
\* performedAtFrom or performedAtTo exactly when the corresponding parameter
\* was supplied with a non-empty value (null and the empty string are left
\* out), carrying that value; it always has limit and has no other key.
C8_QueryParams ==
  \A i \in DOMAIN calls :
    (calls[i].tool = "list_expenses" /\ HasSent(i)) =>
      /\ calls[i].sent[1].method = "GET"
      /\ calls[i].sent[1].url = <<JStr("https://openapi.pleo.io/v1"), JStr("/expenses")>>
      /\ LET q == calls[i].sent[1].params.v IN
         /\ "limit" \in DOMAIN q
         /\ DOMAIN q \subseteq FilterKeys \cup {"limit"}
         /\ \A k \in FilterKeys :
              LET x == ListArg(calls[i].args, k) IN
              /\ k \in DOMAIN q <=> (x.t = "str" /\ x.v # "")
              /\ k \in DOMAIN q => q[k] = x

C8_Witness ==
  \E i \in DOMAIN calls :
    /\ calls[i].tool = "list_expenses"
    /\ HasSent(i)
    /\ calls[i].args.status = JStr("")
    /\ calls[i].args.expense_type = JStr("CARD")
    /\ calls[i].args.from_date.t = "null"
    /\ calls[i].args.to_date = JStr("2024-12-31")
    /\ DOMAIN calls[i].sent[1].params.v = {"limit", "type", "performedAtTo"}

\* C9: whenever the upstream answers the PUT of update_expense with a 2xx
\* status, update_expense returns "Successfully updated expense {id}",
\* whatever the response body is.
C9_Original ==
  \A i \in DOMAIN calls :
    (calls[i].tool = "update_expense" /\ IsDone(i) /\ Len(calls[i].resp) = 1
       /\ calls[i].resp[1].kind = "http"
       /\ calls[i].resp[1].status >= 200 /\ calls[i].resp[1].status <= 299) =>
      Returned(i, <<JStr("Successfully updated expense "), calls[i].args.expense_id>>)

\* the number of requests invocation i has to send over its whole run
Expected(i) ==
  IF KeyConfigured /\ (calls[i].tool = "update_expense" => ~NoFields(calls[i].args))
  THEN 1 ELSE 0

\* C10: an invocation sends at most one request: exactly one once started
\* when the key is configured and (for update_expense) a field is supplied,
\* none otherwise; the count stays so after the answer, failed or not, also
\* with several invocations interleaved.
C10_OneRequest ==
  \A i \in DOMAIN calls :
    /\ Len(calls[i].sent) <= 1
    /\ calls[i].pc = "idle" => Len(calls[i].sent) = 0
    /\ calls[i].pc # "idle" => Len(calls[i].sent) = Expected(i)
    /\ calls[i].pc = "awaiting" => Len(calls[i].sent) = 1

\* two invocations in flight at once, one of them answered with a failure
C10_Witness ==
  /\ Cardinality(DOMAIN calls) >= 2
  /\ calls[1].pc = "awaiting"
  /\ calls[2].tool = "get_expense_receipts"
  /\ Answered(2, 500)
  /\ Len(calls[2].sent) = 1

=============================================================================
